---- MODULE Spec2Model ----
(***************************************************************************)
(* A model of blockchain.py: one Blockchain object (chain, pending         *)
(* transactions, peer set) behind the Flask handlers /transactions/new,    *)
(* /mine, /nodes/register and /nodes/resolve.                              *)
(*                                                                         *)
(* Python values that can be either an int or a str (the proof and         *)
(* previous_hash fields) are records [kind, val]: PyInt(n) has val = <<n>>,*)
(* PyStr(s) has val = the characters of s.  Characters are numbers: 0..15    *)
(* are the hexadecimal digits 0-9a-f, larger numbers are the JSON          *)
(* punctuation and key names listed in Sym.                                *)
(***************************************************************************)
EXTENDS Integers, Sequences, FiniteSets, TLC

\* ------------------------------------------------------------------ bounds
MaxChain == 3        \* mining stops when the local chain has this many blocks
MaxPending == 2      \* submissions stop when this many transactions are pending
MaxClock == 1        \* the wall clock stops advancing at this value
MaxProof == 64       \* the proof-of-work search gives up beyond this proof

\* ------------------------------------------------------- values and text
PyInt(n) == [kind |-> "int", val |-> <<n>>]
PyStr(s) == [kind |-> "str", val |-> s]

\* Python truthiness, as used by `previous_hash or ...`
Truthy(v) == IF v.kind = "int" THEN v.val # <<0>> ELSE v.val # <<>>

RECURSIVE DecStr(_)
\* str(n) for a non-negative int: its decimal digits, most significant first
DecStr(n) == IF n < 10 THEN <<n>> ELSE DecStr(n \div 10) \o <<n % 10>>

\* f'{v}': an int is printed in decimal, a str is copied
Format(v) == IF v.kind = "int" THEN DecStr(v.val[1]) ELSE v.val

\* punctuation and key names of the JSON text, one character each
Sym == [quote |-> 16, comma |-> 17, lbrack |-> 18, rbrack |-> 19,
        lbrace |-> 20, rbrace |-> 21,
        amount |-> 22, index |-> 23, previous_hash |-> 24, proof |-> 25,
        recipient |-> 26, sender |-> 27, timestamp |-> 28, transactions |-> 29]

\* hashlib.sha256(...).hexdigest() is a fixed-width hexadecimal string.  The
\* digest is modelled by a polynomial hash of the characters, scrambled by a
\* cubic and printed as DigestLen hexadecimal digits; about one text in
\* eight has a digest starting with four zeros.
Modulus == 2039
Base == 37
DigestLen == 6

RECURSIVE Power(_, _)
Power(b, n) == IF n = 0 THEN 1
               ELSE IF n % 2 = 1 THEN (b * Power(b, n - 1)) % Modulus
               ELSE LET r == Power(b, n \div 2) IN (r * r) % Modulus

RECURSIVE Poly(_, _, _)
\* the polynomial hash of s[lo..hi]: the sum of (s[i] + 1) * Base^(hi - i)
Poly(s, lo, hi) ==
    IF lo > hi THEN 0
    ELSE IF lo = hi THEN (s[lo] + 1) % Modulus
    ELSE LET mid == (lo + hi) \div 2
         IN  (Poly(s, lo, mid) * Power(Base, hi - mid) + Poly(s, mid + 1, hi)) % Modulus

RECURSIVE HexDigits(_, _)
HexDigits(v, w) == IF w = 0 THEN <<>> ELSE HexDigits(v \div 16, w - 1) \o <<v % 16>>

sha256_hexdigest(s) ==
    LET p == Poly(s, 1, Len(s))
    IN  HexDigits((((p * p) % Modulus) * p + 3 * p + 7) % Modulus, DigestLen)

\* ------------------------------------------------------------ JSON text
\* json.dumps of an int or str value
DumpValue(v) == IF v.kind = "int" THEN DecStr(v.val[1])
                ELSE <<Sym.quote>> \o v.val \o <<Sym.quote>>

\* the characters of the names used as sender and recipient
node_identifier == "c0de"
NameChars(name) == CASE name = "0" -> <<0>>
                     [] name = "A" -> <<10>>
                     [] name = "B" -> <<11>>
                     [] name = node_identifier -> <<12, 0, 13, 14>>

\* json.dumps(tx, sort_keys=True): keys amount, recipient, sender
DumpTx(tx) == <<Sym.lbrace, Sym.amount>> \o DecStr(tx.amount)
              \o <<Sym.comma, Sym.recipient, Sym.quote>> \o NameChars(tx.recipient)
              \o <<Sym.quote, Sym.comma, Sym.sender, Sym.quote>> \o NameChars(tx.sender)
              \o <<Sym.quote, Sym.rbrace>>

RECURSIVE DumpTxs(_)
DumpTxs(txs) == IF txs = <<>> THEN <<>>
                ELSE IF Len(txs) = 1 THEN DumpTx(txs[1])
                ELSE DumpTx(txs[1]) \o <<Sym.comma>> \o DumpTxs(Tail(txs))

\* json.dumps(block, sort_keys=True): keys index, previous_hash, proof,
\* timestamp, transactions
json_dumps(block) ==
    <<Sym.lbrace, Sym.index>> \o DecStr(block.index)
    \o <<Sym.comma, Sym.previous_hash>> \o DumpValue(block.previous_hash)
    \o <<Sym.comma, Sym.proof>> \o DumpValue(block.proof)
    \o <<Sym.comma, Sym.timestamp>> \o DecStr(block.timestamp)
    \o <<Sym.comma, Sym.transactions, Sym.lbrack>> \o DumpTxs(block.transactions)
    \o <<Sym.rbrack, Sym.rbrace>>

\* Blockchain.hash
hash(block) == PyStr(sha256_hexdigest(json_dumps(block)))

\* ------------------------------------------------------- proof of work
\* Blockchain.valid_proof
valid_proof(last_proof, proof) ==
    LET guess == Format(last_proof) \o Format(proof)
        guess_hash == sha256_hexdigest(guess)
    IN  SubSeq(guess_hash, 1, 4) = <<0, 0, 0, 0>>

RECURSIVE Search(_, _)
\* the while loop of proof_of_work from a given proof; -1 when the search
\* passes MaxProof without an answer (the call does not return)
Search(last_proof, proof) ==
    IF proof > MaxProof THEN -1
    ELSE IF valid_proof(last_proof, PyInt(proof)) THEN proof
    ELSE Search(last_proof, proof + 1)

\* proof_of_work starting its search at 1
proof_of_workFromOne(last_proof) == Search(last_proof, 1)

\* Blockchain.proof_of_work
proof_of_work(last_proof) == Search(last_proof, 0)

\* ------------------------------------------------------------- blocks
\* new_block numbering the blocks from 0
MakeBlockZeroBased(ch, txs, previous_hash, proof, now) ==
    [index |-> Len(ch),
     timestamp |-> now,
     transactions |-> txs,
     proof |-> proof,
     previous_hash |-> IF Truthy(previous_hash) THEN previous_hash
                       ELSE hash(ch[Len(ch)])]

\* the block literal of new_block: `previous_hash or self.hash(self.chain[-1])`
MakeBlock(ch, txs, previous_hash, proof, now) ==
    [index |-> Len(ch) + 1,
     timestamp |-> now,
     transactions |-> txs,
     proof |-> proof,
     previous_hash |-> IF Truthy(previous_hash) THEN previous_hash
                       ELSE hash(ch[Len(ch)])]

\* the block made by __init__: new_block(previous_hash=1, proof=100)
Genesis(now) == MakeBlock(<<>>, <<>>, PyInt(1), PyInt(100), now)

\* the reward transaction of mine
Reward == [sender |-> "0", recipient |-> node_identifier, amount |-> 1]

\* mine passing its arguments by name
MineArgsByName(proof, previous_hash) == [previous_hash |-> previous_hash, proof |-> PyInt(proof)]

\* the two arguments mine passes to new_block, in the order of new_block's
\* parameters (previous_hash, proof): mine calls new_block(proof, previous_hash)
MineArgs(proof, previous_hash) == [previous_hash |-> PyInt(proof), proof |-> previous_hash]

\* the block mine seals on chain ch, having read last_block and solved proof
MineBlock(ch, txs, last_block, proof, now) ==
    LET args == MineArgs(proof, hash(last_block))
    IN  MakeBlock(ch, txs, args.previous_hash, args.proof, now)

\* ------------------------------------------------------ chain validation
RECURSIVE ValidFromMinerRule(_, _, _)
\* valid_chain checking the puzzle against the predecessor's proof, the rule
\* mine solves against
ValidFromMinerRule(ch, last_block, current_index) ==
    IF current_index > Len(ch) THEN TRUE
    ELSE LET block == ch[current_index]
         IN  IF block.previous_hash # hash(last_block) THEN FALSE
             ELSE IF ~valid_proof(last_block.proof, block.proof) THEN FALSE
             ELSE ValidFromMinerRule(ch, block, current_index + 1)

RECURSIVE ValidFrom(_, _, _)
\* the while loop of valid_chain
ValidFrom(ch, last_block, current_index) ==
    IF current_index > Len(ch) THEN TRUE
    ELSE LET block == ch[current_index]
         IN  IF block.previous_hash # hash(last_block) THEN FALSE
             ELSE IF ~valid_proof(last_block.previous_hash, block.proof) THEN FALSE
             ELSE ValidFrom(ch, block, current_index + 1)

\* Blockchain.valid_chain, for a chain with a first block (chain[0] raises
\* IndexError on an empty list)
valid_chain(ch) == ValidFrom(ch, ch[1], 2)

\* --------------------------------------------------------- environment
\* transactions posted to /transactions/new; keys is the set of keys present
Posted ==
    { [keys |-> {"sender", "recipient", "amount"}, sender |-> "A", recipient |-> "B", amount |-> 10],
      [keys |-> {"sender", "recipient", "amount"}, sender |-> "B", recipient |-> "A", amount |-> 5],
      [keys |-> {"sender", "recipient"}, sender |-> "A", recipient |-> "B", amount |-> 0] }

\* records posted with any subset of the three keys; the values are a payment
\* of nothing from A to A
Forms == { [keys |-> k, sender |-> "A", recipient |-> "A", amount |-> 0] :
               k \in SUBSET {"sender", "recipient", "amount"} }

\* addresses posted to /nodes/register
Addresses == {"http://h1:5000", "https://h1:5000/chain", "http://h2:5000", "h2:5000"}

\* the network location with the path left on it
netlocWithPath(address) == CASE address = "http://h1:5000" -> "h1:5000"
                             [] address = "https://h1:5000/chain" -> "h1:5000/chain"
                             [] address = "http://h2:5000" -> "h2:5000"
                             [] address = "h2:5000" -> ""

\* urlparse(address).netloc
netloc(address) == CASE address = "http://h1:5000" -> "h1:5000"
                     [] address = "https://h1:5000/chain" -> "h1:5000"
                     [] address = "http://h2:5000" -> "h2:5000"
                     [] address = "h2:5000" -> ""

RECURSIVE Conform(_)
\* a chain of k blocks as valid_chain wants it: each block carries the hash
\* of its predecessor and a proof solved against the predecessor's
\* previous_hash
Conform(k) ==
    IF k = 1 THEN <<Genesis(0)>>
    ELSE LET ch == Conform(k - 1)
             prev == ch[k - 1]
         IN  Append(ch, [index |-> k, timestamp |-> 0, transactions |-> <<Reward>>,
                         proof |-> PyInt(proof_of_work(prev.previous_hash)),
                         previous_hash |-> hash(prev)])

RECURSIVE SameCode(_)
\* a chain of k blocks as a peer running this program mines it
SameCode(k) ==
    IF k = 1 THEN <<Genesis(0)>>
    ELSE LET ch == SameCode(k - 1)
             last_block == ch[k - 1]
         IN  Append(ch, MineBlock(ch, <<Reward>>, last_block,
                                  proof_of_work(last_block.proof), 0))

\* a chain with a transaction added to block i after sealing
Tamper(ch, i) == [ch EXCEPT ![i].transactions = Append(@, Reward)]

\* a chain whose last block carries a proof that is one too large
BadProof(ch) == [ch EXCEPT ![Len(ch)].proof = PyInt(ch[Len(ch)].proof.val[1] + 1)]

\* a chain whose last block carries an index that is not its position
Misnumbered(ch) == [ch EXCEPT ![Len(ch)].index = Len(ch) + 3]

\* the chains peers hold: none, well-formed ones up to one block more than
\* the local chain can have, one damaged after sealing and one with a block
\* numbered out of place
PeerChains == {<<>>} \cup {Conform(k) : k \in 1..(MaxChain + 1)}
              \cup {Tamper(Conform(3), 2), Misnumbered(Conform(2))}

\* what valid_chain is meant to decide: every adjacent pair is linked by
\* hash and passes the puzzle check against the predecessor's previous_hash
PairwiseValid(ch) ==
    \A i \in 2..Len(ch) : /\ ch[i].previous_hash = hash(ch[i - 1])
                          /\ valid_proof(ch[i - 1].previous_hash, ch[i].proof)

\* what requests.get(f'http://{node}/chain') can give: an exception
\* ("unreachable"), a status other than 200, a 200 whose body is not the
\* expected JSON object ("malformed"), or a 200 with length and chain; the
\* reported length is the peer's own statement
Failures == { [status |-> st, length |-> 0, chain |-> <<>>] :
                  st \in {"unreachable", "non200", "malformed"} }

Answers == { [status |-> "ok", length |-> Len(c), chain |-> c] :
                 c \in PeerChains \ {<<>>, Conform(1)} }
           \cup { [status |-> "ok", length |-> MaxChain + 1, chain |-> c] :
                      c \in {<<>>, Conform(1)} }

\* the chains among them that are pairwise valid
ValidPeerChains == { c \in PeerChains \ {<<>>} : PairwiseValid(c) }

\* what a peer at a host can give
HostResponses == Failures \cup Answers

\* the empty network location gives the URL http:///chain, which requests.get
\* rejects with an exception
NoHostResponses == { r \in Failures : r.status = "unreachable" }

Responses(node) == IF node = "" THEN NoHostResponses ELSE HostResponses

\* the orders in which `for node in neighbours` can visit a set
Orders(S) == { o \in [1..Cardinality(S) -> S] : \A n \in S : \E i \in DOMAIN o : o[i] = n }

RECURSIVE Polls(_)
\* the responses a polling order can meet, in that order
Polls(order) == IF order = <<>> THEN {<<>>}
                ELSE { <<r>> \o rest : r \in Responses(Head(order)), rest \in Polls(Tail(order)) }

\* ------------------------------------------------------------------ state
Threads == {"t1", "t2"}

VARIABLES chain,                  \* blockchain.chain
          current_transactions,   \* blockchain.current_transactions
          nodes,                  \* blockchain.nodes
          clock,                  \* what time() returns
          pc, m_last_block, m_proof,   \* position and locals of each running mine request
          m_block,                \* the block dict of each new_block call that has built one
          m_shares,               \* the calls whose block's transactions list is still the
                                  \* object bound to blockchain.current_transactions
          promised,               \* per pending transaction, the index new_transaction returned
          last                    \* the request that just completed and what it returned

vars == <<chain, current_transactions, nodes, clock, pc, m_last_block, m_proof,
          m_block, m_shares, promised, last>>

NoBlock == [index |-> 0, timestamp |-> 0, transactions |-> <<>>,
            proof |-> PyInt(0), previous_hash |-> PyInt(0)]

\* the record of a request: its name, its HTTP status, and what it returned
\* (index for a submission, block for mine, replaced for resolve).  For
\* resolve it also notes whether the method raised (aborted), whether some
\* polled peer failed (failing), whether some peer answered with a length
\* above the local one and a chain that is pairwise valid (offered), and
\* whether the outcome is the one the method gives on the responses without
\* the failing ones (as_if_skipped).
\* It notes as well whether the chain adopted was reported with the largest
\* length among the answers that report more than the local length with a
\* chain passing valid_chain (adopted_max), and whether every polling order
\* of the same responses ends the same way (order_free).
\* For valid_chain it holds the chain given (candidate) and the result
\* (verdict), or that the call raised (aborted).
\* For register it notes whether addresses were given that all name peers
\* already in the set (again).
Quiet(op) == [op |-> op, status |-> 200, index |-> 0, block |-> NoBlock,
              replaced |-> FALSE, aborted |-> FALSE, failing |-> FALSE,
              offered |-> FALSE, as_if_skipped |-> TRUE,
              adopted_max |-> TRUE, order_free |-> TRUE,
              candidate |-> <<>>, verdict |-> FALSE, again |-> FALSE]

Init == /\ clock \in 0..MaxClock
        /\ chain = <<Genesis(clock)>>
        /\ current_transactions = <<>>
        /\ nodes = {}
        /\ pc = [t \in Threads |-> "idle"]
        /\ m_last_block = [t \in Threads |-> NoBlock]
        /\ m_proof = [t \in Threads |-> 0]
        /\ m_block = [t \in {} |-> NoBlock]
        /\ m_shares = {}
        /\ promised = <<>>
        /\ last = [Quiet("init") EXCEPT !.block = chain[1]]

\* the wall clock advances
Tick == /\ clock < MaxClock
        /\ clock' = clock + 1
        /\ last' = Quiet("tick")
        /\ UNCHANGED <<chain, current_transactions, nodes, pc, m_last_block, m_proof,
                     m_block, m_shares, promised>>

\* Blockchain.last_block
last_block == chain[Len(chain)]

\* the list object bound to blockchain.current_transactions gains tx: every
\* block under construction that holds the same object shows it too
ListAppend(tx) ==
    [t \in DOMAIN m_block |-> IF t \in m_shares
                              THEN [m_block[t] EXCEPT !.transactions = Append(@, tx)]
                              ELSE m_block[t]]

\* new_transaction appending to a list that the last sealed block holds too
new_transactionIntoSealed(tx) ==
    /\ current_transactions' = Append(current_transactions, tx)
    /\ m_block' = ListAppend(tx)
    /\ promised' = Append(promised, last_block.index + 1)
    /\ chain' = [chain EXCEPT ![Len(chain)].transactions = Append(@, tx)]

\* Blockchain.new_transaction; it returns last_block.index + 1
new_transaction(tx) ==
    /\ current_transactions' = Append(current_transactions, tx)
    /\ m_block' = ListAppend(tx)
    /\ promised' = Append(promised, last_block.index + 1)
    /\ chain' = chain

\* POST /transactions/new without the test of line 226
SubmitUnchecked(values) ==
    /\ Len(current_transactions) < MaxPending
    /\ new_transaction([sender |-> values.sender, recipient |-> values.recipient,
                        amount |-> values.amount])
    /\ last' = [Quiet("submit") EXCEPT !.status = 201, !.index = last_block.index + 1]
    /\ UNCHANGED <<nodes, clock, pc, m_last_block, m_proof, m_shares>>

\* POST /transactions/new
Submit(values) ==
    /\ Len(current_transactions) < MaxPending
    /\ IF ~({"sender", "recipient", "amount"} \subseteq values.keys)
       THEN /\ last' = [Quiet("submit") EXCEPT !.status = 400]
            /\ UNCHANGED <<chain, current_transactions, promised, m_block>>
       ELSE LET tx == [sender |-> values.sender, recipient |-> values.recipient,
                       amount |-> values.amount]
                index == last_block.index + 1
            IN  /\ new_transaction(tx)
                /\ last' = [Quiet("submit") EXCEPT !.status = 201, !.index = index]
    /\ UNCHANGED <<nodes, clock, pc, m_last_block, m_proof, m_shares>>

\* POST /nodes/register with a list of addresses, or without the key 'nodes'
Register(given, list) ==
    /\ IF ~given
       THEN /\ last' = [Quiet("register") EXCEPT !.status = 400]
            /\ UNCHANGED nodes
       ELSE /\ nodes' = nodes \cup { netloc(a) : a \in list }
            /\ last' = [Quiet("register") EXCEPT
                          !.status = 201,
                          !.again = list # {} /\ \A a \in list : netloc(a) \in nodes]
    /\ UNCHANGED <<chain, current_transactions, clock, pc, m_last_block, m_proof,
                 m_block, m_shares, promised>>

\* ------------------------------------------------------------------ mine
\* the number of mine requests between reading last_block and sealing
Running == Cardinality({ t \in Threads : pc[t] # "idle" })

\* mine, line 246-247: read the last block
MineRead(t) ==
    /\ pc[t] = "idle"
    /\ Len(chain) + Running < MaxChain
    /\ m_last_block' = [m_last_block EXCEPT ![t] = last_block]
    /\ pc' = [pc EXCEPT ![t] = "solve"]
    /\ last' = Quiet("step")
    /\ UNCHANGED <<chain, current_transactions, nodes, clock, m_proof, m_block, m_shares, promised>>

\* mine, line 248: solve the puzzle against the proof field of the block read
MineSolve(t) ==
    /\ pc[t] = "solve"
    /\ LET proof == proof_of_work(m_last_block[t].proof)
       IN  /\ proof # -1
           /\ m_proof' = [m_proof EXCEPT ![t] = proof]
    /\ pc' = [pc EXCEPT ![t] = "reward"]
    /\ last' = Quiet("step")
    /\ UNCHANGED <<chain, current_transactions, nodes, clock, m_last_block, m_block, m_shares, promised>>

\* mine, line 252-256: new_transaction for the reward
MineReward(t) ==
    /\ pc[t] = "reward"
    /\ new_transaction(Reward)
    /\ pc' = [pc EXCEPT ![t] = "seal"]
    /\ last' = Quiet("step")
    /\ UNCHANGED <<nodes, clock, m_last_block, m_proof, m_shares>>

\* new_block without the reset of the pending transactions
SealKeepPending(read, proof, txs) ==
    LET block == MineBlock(chain, txs, read, proof, clock)
    IN  /\ chain' = Append(chain, block)
        /\ current_transactions' = txs
        /\ promised' = promised
        /\ last' = [Quiet("mine") EXCEPT !.block = block]

\* new_block as mine calls it, lines 259-260 and 117-129, for a request that
\* read the block `read` and solved proof, with txs pending
Seal(read, proof, txs) ==
    LET block == MineBlock(chain, txs, read, proof, clock)
    IN  /\ chain' = Append(chain, block)
        /\ current_transactions' = <<>>
        /\ promised' = <<>>
        /\ last' = [Quiet("mine") EXCEPT !.block = block]

\* mine, line 259-260: hash the block read and seal
MineSeal(t) ==
    /\ pc[t] = "seal"
    /\ Seal(m_last_block[t], m_proof[t], current_transactions)
    /\ pc' = [pc EXCEPT ![t] = "idle"]
    /\ m_last_block' = [m_last_block EXCEPT ![t] = NoBlock]
    /\ m_proof' = [m_proof EXCEPT ![t] = 0]
    /\ UNCHANGED <<nodes, clock, m_block, m_shares>>

\* new_block, lines 117-123: the block dict is built; its 'transactions' is
\* the list object bound to blockchain.current_transactions
MineBuild(t) ==
    /\ pc[t] = "seal"
    /\ m_block' = [u \in DOMAIN m_block \cup {t} |->
                      IF u = t THEN MineBlock(chain, current_transactions,
                                              m_last_block[t], m_proof[t], clock)
                      ELSE m_block[u]]
    /\ m_shares' = m_shares \cup {t}
    /\ pc' = [pc EXCEPT ![t] = "reset"]
    /\ last' = Quiet("step")
    /\ UNCHANGED <<chain, current_transactions, nodes, clock, m_last_block, m_proof, promised>>

\* new_block, line 126: blockchain.current_transactions is bound to a new
\* empty list, which no block under construction holds
MineReset(t) ==
    /\ pc[t] = "reset"
    /\ current_transactions' = <<>>
    /\ promised' = <<>>
    /\ m_shares' = {}
    /\ pc' = [pc EXCEPT ![t] = "append"]
    /\ last' = Quiet("step")
    /\ UNCHANGED <<chain, nodes, clock, m_last_block, m_proof, m_block>>

\* new_block, line 128-129: the block is appended and returned
MineAppend(t) ==
    /\ pc[t] = "append"
    /\ chain' = Append(chain, m_block[t])
    /\ last' = [Quiet("mine") EXCEPT !.block = m_block[t]]
    /\ pc' = [pc EXCEPT ![t] = "idle"]
    /\ m_last_block' = [m_last_block EXCEPT ![t] = NoBlock]
    /\ m_proof' = [m_proof EXCEPT ![t] = 0]
    /\ m_block' = [u \in DOMAIN m_block \ {t} |-> m_block[u]]
    /\ UNCHANGED <<current_transactions, nodes, clock, m_shares, promised>>

\* GET /mine served without any other request in between
Mine ==
    /\ Len(chain) < MaxChain
    /\ \A t \in Threads : pc[t] = "idle"
    /\ LET read == last_block
           proof == proof_of_work(read.proof)
       IN  /\ proof # -1
           /\ Seal(read, proof, Append(current_transactions, Reward))
    /\ UNCHANGED <<nodes, clock, pc, m_last_block, m_proof, m_block, m_shares>>

\* --------------------------------------------------------------- resolve
\* valid_chain on each chain a peer can hold, computed once
ValidChainOfPeer == [c \in PeerChains \ {<<>>} |-> valid_chain(c)]

\* self.valid_chain(chain) as resolve_conflicts calls it: the value of
\* valid_chain, read from ValidChainOfPeer where it is already there
valid_chain_call(ch) == IF ch \in DOMAIN ValidChainOfPeer THEN ValidChainOfPeer[ch]
                        ELSE valid_chain(ch)

\* new_chain = None
None == [set |-> FALSE, chain |-> <<>>]

\* the length test of line 86
Longer(length, max_chain_length) == length > max_chain_length

RECURSIVE Scan(_, _, _, _)
\* the for loop of resolve_conflicts over the responses in polling order.
\* An exception (requests.get raising, a body without the keys, chain[0] of
\* an empty chain in valid_chain) leaves the loop and the method.
Scan(polled, i, new_chain, max_chain_length) ==
    IF i > Len(polled) THEN [aborted |-> FALSE, new_chain |-> new_chain, length |-> max_chain_length]
    ELSE LET r == polled[i]
         IN  IF r.status = "unreachable" THEN [aborted |-> TRUE, new_chain |-> new_chain, length |-> max_chain_length]
             ELSE IF r.status = "non200"
                  THEN Scan(polled, i + 1, new_chain, max_chain_length)
             ELSE IF r.status = "malformed" THEN [aborted |-> TRUE, new_chain |-> new_chain, length |-> max_chain_length]
             ELSE IF ~Longer(r.length, max_chain_length)
                  THEN Scan(polled, i + 1, new_chain, max_chain_length)
             ELSE IF r.chain = <<>> THEN [aborted |-> TRUE, new_chain |-> new_chain, length |-> max_chain_length]
             ELSE IF valid_chain_call(r.chain)
                  THEN Scan(polled, i + 1, [set |-> TRUE, chain |-> r.chain], r.length)
             ELSE Scan(polled, i + 1, new_chain, max_chain_length)

\* resolve_conflicts taking the chain of any answer that reports a greater
\* length, without valid_chain and with `if new_chain is not None`
resolve_conflictsUnchecked(ch, polled) ==
    LET longer == { i \in DOMAIN polled : polled[i].status = "ok" /\ polled[i].length > Len(ch) }
    IN  IF longer = {} THEN [aborted |-> FALSE, replaced |-> FALSE, chain |-> ch, length |-> Len(ch)]
        ELSE LET i == CHOOSE i \in longer : \A j \in longer : polled[j].length <= polled[i].length
             IN  [aborted |-> FALSE, replaced |-> TRUE, chain |-> polled[i].chain,
                  length |-> polled[i].length]

\* Blockchain.resolve_conflicts on a chain, given the responses in polling
\* order: whether it raised, what it returned, the chain it leaves and the
\* final max_chain_length
resolve_conflicts(ch, polled) ==
    LET scan == Scan(polled, 1, None, Len(ch))
    IN  IF scan.aborted
        THEN [aborted |-> TRUE, replaced |-> FALSE, chain |-> ch, length |-> scan.length]
        ELSE IF scan.new_chain.set /\ scan.new_chain.chain # <<>>
             THEN [aborted |-> FALSE, replaced |-> TRUE, chain |-> scan.new_chain.chain,
                   length |-> scan.length]
        ELSE [aborted |-> FALSE, replaced |-> FALSE, chain |-> ch, length |-> scan.length]

\* the same responses met in every polling order
Reorderings(polled) ==
    { [i \in DOMAIN polled |-> polled[o[i]]] : o \in Orders(DOMAIN polled) }

\* the reported lengths of the answers resolve_conflicts may adopt on chain
\* ch: more than Len(ch), with a chain that passes valid_chain
Eligible(ch, polled) ==
    { polled[i].length : i \in { j \in DOMAIN polled :
                                   /\ polled[j].status = "ok"
                                   /\ polled[j].length > Len(ch)
                                   /\ polled[j].chain # <<>>
                                   /\ valid_chain_call(polled[j].chain) } }

\* a response that is no answer: the peer could not be reached or its body
\* is not the expected object or holds no block
Failing(r) == r.status \in {"unreachable", "malformed"} \/ (r.status = "ok" /\ r.chain = <<>>)

\* the responses of the peers that did not fail, in polling order
Remaining(polled) == SelectSeq(polled, LAMBDA r : ~Failing(r))

\* GET /nodes/resolve.  res is what resolve_conflicts does on the responses,
\* skip what it does on them without the failing ones.
Resolve(polled) ==
    /\ \E res \in {resolve_conflicts(chain, polled)} :
       \E skip \in {resolve_conflicts(chain, Remaining(polled))} :
           /\ chain' = res.chain
           /\ last' = [Quiet("resolve") EXCEPT
                         !.replaced = res.replaced,
                         !.aborted = res.aborted,
                         !.status = IF res.aborted THEN 500 ELSE 200,
                         !.failing = \E i \in DOMAIN polled : Failing(polled[i]),
                         !.offered = \E i \in DOMAIN polled :
                                        /\ polled[i].status = "ok"
                                        /\ polled[i].length > Len(chain)
                                        /\ polled[i].chain \in ValidPeerChains,
                         !.adopted_max = res.replaced =>
                                            \E eligible \in {Eligible(chain, polled)} :
                                                /\ res.length \in eligible
                                                /\ \A n \in eligible : n <= res.length,
                         !.order_free = \A reordered \in Reorderings(polled) :
                                            \E other \in {resolve_conflicts(chain, reordered)} :
                                                /\ other.aborted = res.aborted
                                                /\ other.replaced = res.replaced
                                                /\ ~res.aborted => other.length = res.length,
                         !.as_if_skipped = /\ ~res.aborted
                                           /\ \/ \A i \in DOMAIN polled : ~Failing(polled[i])
                                              \/ /\ res.replaced = skip.replaced
                                                 /\ res.chain = skip.chain]
    /\ UNCHANGED <<current_transactions, nodes, clock, pc, m_last_block, m_proof,
                   m_block, m_shares, promised>>

\* a direct call of Blockchain.valid_chain on a chain
ValidChain(c) ==
    /\ last' = IF c = <<>>
               THEN [Quiet("valid_chain") EXCEPT !.candidate = c, !.aborted = TRUE]
               ELSE [Quiet("valid_chain") EXCEPT !.candidate = c, !.verdict = valid_chain(c)]
    /\ UNCHANGED <<chain, current_transactions, nodes, clock, pc, m_last_block, m_proof,
                   m_block, m_shares, promised>>

\* the chains given to valid_chain: those peers hold, the local one, and
\* longer ones damaged at the first or at a middle block
Candidates == PeerChains \cup {chain, SameCode(2), BadProof(Conform(2))}
              \cup {Tamper(Conform(MaxChain + 1), 1), Tamper(Conform(MaxChain + 1), 2),
                    BadProof(Conform(MaxChain + 1))}

\* -------------------------------------------------------- specifications
SubmitAny == \E values \in Posted : Submit(values)
SubmitOne == \E values \in { v \in Posted : v.amount = 10 } : Submit(values)
RegisterAny == \E given \in BOOLEAN, list \in SUBSET Addresses :
                   /\ given \/ list = {}
                   /\ Register(given, list)
\* every sequence of responses that some polling order of the peers can meet
ResolveAny == \E polled \in UNION { Polls(order) : order \in Orders(nodes) } : Resolve(polled)
ValidChainAny == \E c \in Candidates : ValidChain(c)
SubmitForm == \E values \in Forms : Submit(values)

\* the node on its own: submissions and mine requests served one at a time
Next == \/ Tick
        \/ SubmitAny
        \/ Mine

Spec == Init /\ [][Next]_vars

\* the node taking submissions of every shape and registrations
LocalNext == \/ SubmitForm
             \/ Mine
             \/ RegisterAny

LocalSpec == Init /\ [][LocalNext]_vars

\* the node among peers: registration and consensus resolution as well, all
\* requests served one at a time
NetNext == \/ SubmitOne
           \/ Mine
           \/ RegisterAny
           \/ ResolveAny

\* the node constructed at time 0
NetInit == Init /\ clock = 0

NetSpec == NetInit /\ [][NetNext]_vars

\* requests served by concurrent threads: mine requests interleave with each
\* other and with submissions
MineStep == \E t \in Threads : MineRead(t) \/ MineSolve(t) \/ MineReward(t) \/ MineSeal(t)

ConcNext == \/ Tick
            \/ SubmitOne
            \/ MineStep

ConcSpec == Init /\ [][ConcNext]_vars

\* the same with new_block itself interleaving: between building the block,
\* rebinding the pending list and appending, other requests run
RaceStep == \E t \in Threads : \/ MineRead(t) \/ MineSolve(t) \/ MineReward(t)
                               \/ MineBuild(t) \/ MineReset(t) \/ MineAppend(t)

RaceNext == \/ SubmitOne
            \/ RaceStep

RaceSpec == NetInit /\ [][RaceNext]_vars

\* valid_chain called on the chains of Candidates while the node mines
ValidNext == \/ Tick
             \/ Mine
             \/ ValidChainAny

ValidSpec == Init /\ [][ValidNext]_vars

\* ================================================================ claims

\* C1: every non-genesis block of the local chain carries the hash of its
\* predecessor in previous_hash.
C1_LinkInvariant ==
    \A i \in 2..Len(chain) : chain[i].previous_hash = hash(chain[i - 1])

\* C2: valid_chain returns true for a non-empty chain exactly when every
\* adjacent pair is linked by hash and passes the puzzle check against the
\* predecessor's previous_hash; a chain of one block is valid.
C2_ValidIffEveryPair ==
    (last.op = "valid_chain" /\ last.candidate # <<>>) =>
        /\ ~last.aborted
        /\ last.verdict <=> PairwiseValid(last.candidate)
        /\ Len(last.candidate) = 1 => last.verdict

\* a chain of three or more blocks whose first pair passes was rejected
C2_Witness ==
    /\ last.op = "valid_chain"
    /\ Len(last.candidate) >= 3
    /\ PairwiseValid(SubSeq(last.candidate, 1, 2))
    /\ ~last.verdict

\* C3: resolve_conflicts returns true and adopts a peer's chain exactly when
\* some reachable peer reports a length above the local one with a valid
\* chain; otherwise it returns false and leaves the chain alone.
C3_ReplacedIffOffered ==
    [][last'.op = "resolve" =>
          /\ last'.replaced <=> last'.offered
          /\ last'.replaced => chain' \in ValidPeerChains
          /\ ~last'.offered => chain' = chain]_vars

\* C4: a chain adopted by resolve_conflicts has more blocks than the one it
\* replaces, and the local chain never gets shorter.
C4_NeverShrinks ==
    [][/\ (last'.op = "resolve" /\ last'.replaced) => Len(chain') > Len(chain)
       /\ Len(chain') >= Len(chain)]_vars

\* C5: a mine request appends its block only when the last block of the
\* chain is still the block it read before solving.
C5_StaleProofDiscard ==
    [][\A t \in Threads :
          (pc[t] = "seal" /\ pc'[t] = "idle") => m_last_block[t] = chain[Len(chain)]]_vars

\* C6: a completed mine request has made the chain one block longer and
\* left no pending transaction.
C6_MineGrowsByOne ==
    [][last'.op = "mine" =>
          /\ Len(chain') = Len(chain) + 1
          /\ current_transactions' = <<>>]_vars

\* a mine request sealed pending transactions into a block beyond genesis
C6_Witness ==
    /\ last.op = "mine"
    /\ Len(chain) = 3
    /\ Len(last.block.transactions) = 3
    /\ current_transactions = <<>>

\* C7: the index returned for a submitted transaction is the index of the
\* block that later seals it.
C7_PromisedIndexKept ==
    [][last'.op = "mine" =>
          \A i \in 1..Len(promised) : promised[i] = last'.block.index]_vars

\* C8: the block mine returns is the one appended, its index is the former
\* chain length plus 1 and its transactions are the pending ones in order
\* followed by the reward; on a fresh node a submission is told index 2.
C8_MinedBlock ==
    [][/\ last'.op = "mine" =>
            /\ last'.block = chain'[Len(chain')]
            /\ last'.block.index = Len(chain) + 1
            /\ last'.block.transactions = Append(current_transactions, Reward)
       /\ (last'.op = "submit" /\ last'.status = 201 /\ Len(chain) = 1) =>
            last'.index = 2]_vars

\* A, B, 10 was submitted to a fresh node and mined into block 2
C8_Witness ==
    /\ last.op = "mine"
    /\ Len(chain) = 2
    /\ last.block.index = 2
    /\ last.block.transactions = <<[sender |-> "A", recipient |-> "B", amount |-> 10], Reward>>

\* C9 as stated: whatever proof is solved, the sealed block has that proof
\* in previous_hash and the hash of the block read in proof.
C9_SwapForEveryProof ==
    [][last'.op = "mine" =>
          /\ last'.block.previous_hash = PyInt(proof_of_work(last_block.proof))
          /\ last'.block.proof = hash(last_block)]_vars

\* C9 amended: the sealed block has the hash of the block read in proof; its
\* previous_hash is the solved proof when that is not 0, and the hash of the
\* last block of the chain when the solved proof is 0.
C9_SwapUnlessZero ==
    [][last'.op = "mine" =>
          LET solved == proof_of_work(last_block.proof)
          IN  /\ last'.block.proof = hash(last_block)
              /\ solved # 0 => last'.block.previous_hash = PyInt(solved)
              /\ solved = 0 => last'.block.previous_hash = hash(last_block)]_vars

\* a block was sealed with a solved proof other than 0 in previous_hash
C9_Witness ==
    /\ last.op = "mine"
    /\ last.block.previous_hash.kind = "int"
    /\ last.block.previous_hash # PyInt(0)
    /\ last.block.proof = hash(chain[Len(chain) - 1])

\* C10: resolve_conflicts does not raise when a peer cannot be reached or
\* answers with something malformed, and decides as it would without it.
C10_FailingPeerSkipped ==
    last.op = "resolve" => (~last.aborted /\ last.as_if_skipped)

\* C11: a submission lacking sender, recipient or amount is answered with the
\* missing-values error and changes neither the chain nor the pending
\* transactions nor the peers; a submission with all three keys is recorded
\* whatever their values.
C11_MissingFieldRejected ==
    [][\A values \in Forms : Submit(values) =>
          IF {"sender", "recipient", "amount"} \subseteq values.keys
          THEN /\ last'.status = 201
               /\ current_transactions' = Append(current_transactions,
                      [sender |-> values.sender, recipient |-> values.recipient,
                       amount |-> values.amount])
          ELSE /\ last'.status = 400
               /\ chain' = chain
               /\ current_transactions' = current_transactions
               /\ nodes' = nodes]_vars

\* a submission was rejected on a node with peers, a mined block and a
\* pending transaction, and left them all in place
C11_Witness ==
    /\ last.op = "submit"
    /\ last.status = 400
    /\ nodes # {}
    /\ Len(chain) > 1
    /\ current_transactions # <<>>

\* C12: registering an address without a network location is answered with
\* an error and leaves the peers as they were; the empty network location is
\* never a peer.
C12_UnparseableRejected ==
    [][/\ "" \notin nodes'
       /\ Register(TRUE, {"h2:5000"}) => (nodes' = nodes /\ last'.status # 201)]_vars

\* C13: the local chain always has a block.
C13_ChainNeverEmpty == Len(chain) >= 1

\* resolve_conflicts replaced the chain although a peer answered without
\* a usable chain
C13_Witness ==
    /\ last.op = "resolve"
    /\ last.replaced
    /\ last.failing

\* C14: every block of the local chain carries its position, counted from 1,
\* in index.
C14_IndexIsPosition == \A i \in DOMAIN chain : chain[i].index = i

\* C15: no request removes a peer, registering addresses whose peers are all
\* known changes nothing, and two spellings of one host and port add at most
\* one peer.
C15_RegisterIdempotent ==
    [][/\ nodes \subseteq nodes'
       /\ (last'.op = "register" /\ last'.again) => nodes' = nodes
       /\ Register(TRUE, {"http://h1:5000", "https://h1:5000/chain"}) =>
              nodes' = nodes \cup {"h1:5000"}]_vars

\* both hosts are peers and a registration of known addresses just ended
C15_Witness ==
    /\ last.op = "register"
    /\ last.again
    /\ nodes = {"h1:5000", "h2:5000"}

\* C16: the proof a mine request has solved passes valid_proof against the
\* proof it was solved for, and no smaller natural number does.
C16_SolveSmallest ==
    \A t \in Threads : pc[t] \in {"reward", "seal"} =>
        /\ valid_proof(m_last_block[t].proof, PyInt(m_proof[t]))
        /\ \A q \in 0..(m_proof[t] - 1) : ~valid_proof(m_last_block[t].proof, PyInt(q))

\* a request solved a proof that took a search, against a hash string
C16_Witness ==
    \E t \in Threads : /\ pc[t] = "seal"
                        /\ m_proof[t] > 0
                        /\ m_last_block[t].proof.kind = "str"

\* C17: when resolve_conflicts replaces the chain, the length it adopted is
\* the largest reported with a chain passing valid_chain above the local
\* length, and the outcome does not depend on the polling order.
C17_LongestWhateverOrder ==
    last.op = "resolve" => /\ last.replaced => last.adopted_max
                           /\ last.order_free

\* C18: a submission or a mine request leaves every block already in the
\* chain as it was and in place, and a submission changes neither the chain
\* nor the peers.
C18_AppendOnly ==
    [][last'.op \in {"submit", "mine"} =>
          /\ Len(chain') >= Len(chain)
          /\ SubSeq(chain', 1, Len(chain)) = chain
          /\ nodes' = nodes
          /\ last'.op = "submit" => chain' = chain]_vars

\* a transaction was recorded after a block holding transactions was sealed
C18_Witness ==
    /\ last.op = "submit"
    /\ last.status = 201
    /\ Len(chain) = MaxChain
    /\ Len(chain[Len(chain)].transactions) > 1
    /\ nodes # {}

\* C19: the chain a node has built by itself passes valid_chain.
C19_OwnChainValid == valid_chain(chain)

\* C20: the list a new_block call discards holds nothing that its block
\* lacks, and once no mine request is running the chain and the pending
\* list hold one reward for each block mined.
C20_CommittedOnce ==
    [][/\ \A t \in Threads : (pc[t] = "reset" /\ pc'[t] = "append") =>
              \A i \in DOMAIN current_transactions :
                  \E j \in DOMAIN m_block[t].transactions :
                      m_block[t].transactions[j] = current_transactions[i]
       /\ (\A t \in Threads : pc'[t] = "idle") =>
              LET sealed == UNION { { <<i, j>> : j \in { k \in DOMAIN chain'[i].transactions :
                                                            chain'[i].transactions[k] = Reward } } :
                                    i \in DOMAIN chain' }
                  pending == { k \in DOMAIN current_transactions' :
                                  current_transactions'[k] = Reward }
              IN  Cardinality(sealed) + Cardinality(pending) = Len(chain') - 1]_vars

====
